---- MODULE Spec2Model ----
(***************************************************************************)
(* Model of src/app.py: a generator thread (data_stream_simulation) puts   *)
(* samples on data_queue, the Dash callback update_graph takes up to five  *)
(* of them per activation, indexes them, stores them in the display        *)
(* buffers and runs them through RollingZScoreAnomalyDetector.             *)
(*                                                                         *)
(* Values.  A Python value is a record [kind, num].  kind is the run-time  *)
(* type class: "int" and "float" are finite numbers, "nan", "inf" and      *)
(* "ninf" are the float objects nan, +inf and -inf (their Python type is   *)
(* float), "str" and "none" are non-numeric objects.  num is the magnitude *)
(* of a finite number in tenths: PyFloat(503) is 50.3, PyInt(3) is 3.      *)
(*                                                                         *)
(* Arithmetic.  The z-score test is evaluated in exact rational            *)
(* arithmetic, cross-multiplied so that no division or square root is      *)
(* needed.  np.mean, np.std and the division of line 117 are float64       *)
(* operations; their rounding depends on the values and on the summation   *)
(* order of the numpy build, which app.py does not fix.  For the values of *)
(* the model the rounded computation decides the comparison as the exact   *)
(* one does, except where the exact one is degenerate:                     *)
(*   - an exact tie, |z| = threshold, in which some intermediate result is *)
(*     not exactly representable (nine 10.0 and one 11.0 have mean 10.1):  *)
(*     the computed |z| falls on either side;                              *)
(*   - a window of three or more equal values whose sums are not exactly   *)
(*     representable (0.1 + 0.1 + 0.1 is 0.30000000000000004): the         *)
(*     computed mean differs from the value in the last place, std_dev is  *)
(*     that residue instead of 0, and |z| is 1 instead of 0.               *)
(* The variable `rounding` fixes, for a run, which way these cases go.     *)
(***************************************************************************)
EXTENDS Integers, Sequences, FiniteSets, TLC

VARIABLES
    \* generator thread (data_stream_simulation)
    gpc,            \* position in the loop body
    t,              \* step counter, line 47 / 63
    value,          \* the local `value` of the generator
    \* the channel
    data_queue,     \* queue.Queue(), line 125
    \* consumer (update_graph)
    cpc,            \* position in update_graph
    loop_i,         \* iterations of `for _ in range(5)` already finished
    cvalue,         \* the local `value` of update_graph
    figure,         \* outcome of the last finished activation
    data_x, data_y, anomaly_x, anomaly_y,    \* lines 126-129
    \* detector
    window_size,    \* maxlen of the deque, line 87
    threshold,      \* line 88, a rational [num, den]
    window,         \* line 87
    ret,            \* what the last update_and_detect call returned
    escaped,        \* the exception that left the last call, or "none"
    rounding,       \* float64 rounding in the degenerate cases, see above
    \* process
    shutdown,       \* the hosting process has been asked to stop
    \* history (not program state)
    put_log,        \* values put on data_queue, in order
    detect_log,     \* values passed to update_and_detect, in order
    flag_log,       \* what update_and_detect returned for each of them
    idx_log,        \* idx assigned by update_graph, in order
    accepted,       \* values that passed validation in update_and_detect
    window_before,  \* the window when the last update_and_detect began
    taken,          \* samples taken by the current/last activation
    queued_at_start,\* queue length when the current/last activation began
    puts_at_shutdown \* len(put_log) when shutdown was requested, else -1

vars == <<gpc, t, value, data_queue, cpc, loop_i, cvalue, figure,
          data_x, data_y, anomaly_x, anomaly_y,
          window_size, threshold, window, ret, escaped, rounding, shutdown,
          put_log, detect_log, flag_log,
          idx_log, accepted, window_before, taken,
          queued_at_start, puts_at_shutdown>>

genVars  == <<gpc, t, value>>
consVars == <<cpc, loop_i, cvalue, figure, data_x, data_y, anomaly_x, anomaly_y>>
detVars  == <<window_size, threshold, window, ret, escaped, rounding>>

(***************************************************************************)
(* Bounds of the model.                                                    *)
(***************************************************************************)
MaxSamples     == 4      \* samples the generator produces under Spec
MaxLongSamples == 202    \* samples the generator produces under SpecLong
MaxBacklog     == 1      \* queue length at which SpecLong's generator waits
MaxLiveSamples == 6      \* samples the generator produces under SpecLive
MaxAnySamples  == 3      \* samples the generator puts under SpecAny
WarmSamples    == 3014   \* samples already consumed when SpecWarm starts
MaxWarmExtra   == 3      \* samples the generator then produces under SpecWarm
MaxWindow      == 3      \* largest window_size tried under SpecDet
MaxCalls       == 4      \* update_and_detect calls under SpecDet
MaxOutliers    == 1      \* non-baseline values fed under SpecDet30
MaxFeed30      == 31     \* update_and_detect calls under SpecDet30
MaxFirst       == 11     \* update_and_detect calls under SpecFirst

(***************************************************************************)
(* Program constants.                                                      *)
(***************************************************************************)
BatchSize          == 5        \* range(5)
DisplayCap         == 200      \* deque(maxlen=200)
AnomalyCap         == 200      \* anomaly_x[-200:]
DeployedWindowSize == 30       \* RollingZScoreAnomalyDetector(window_size=30, ...)
DeployedThreshold  == 3        \* ... threshold=3)
EpsInverse         == 1000000  \* 1 / 1e-6

----------------------------------------------------------------------------
(***************************************************************************)
(* Values and arithmetic helpers.                                          *)
(***************************************************************************)
PyFloat(n) == [kind |-> "float", num |-> n]
PyInt(n)   == [kind |-> "int", num |-> 10 * n]
NaN        == [kind |-> "nan", num |-> 0]
PosInf     == [kind |-> "inf", num |-> 0]
NegInf     == [kind |-> "ninf", num |-> 0]
Str        == [kind |-> "str", num |-> 0]
None       == [kind |-> "none", num |-> 0]

IsFinite(v) == v.kind \in {"int", "float"}

\* multiples of 0.5: every sum of a few copies, and its quotient by their
\* number, is exactly representable in float64
ExactlySummable(v) == v.num % 5 = 0

Roundings == {"none", "away"}

Abs(n) == IF n < 0 THEN -n ELSE n
Min(a, b) == IF a < b THEN a ELSE b

RECURSIVE Sum(_)
Sum(s) == IF s = <<>> THEN 0 ELSE Head(s) + Sum(Tail(s))

RECURSIVE SumSq(_)
SumSq(s) == IF s = <<>> THEN 0 ELSE Head(s) * Head(s) + SumSq(Tail(s))

RECURSIVE Gcd(_, _)
Gcd(a, b) == IF b = 0 THEN a ELSE Gcd(b, a % b)

RECURSIVE SeqGcd(_)
SeqGcd(s) == IF s = <<>> THEN 0 ELSE Gcd(Abs(Head(s)), SeqGcd(Tail(s)))

\* The z-score is unchanged when every value is shifted by the same amount
\* and divided by the same positive factor.  Offsets are the window's values
\* less the first one; Step is their greatest common divisor, 0 when all
\* values are equal; Scaled are the offsets in units of Step.
Offsets(w) == [k \in 1..Len(w) |-> w[k].num - w[1].num]
Step(w)    == SeqGcd(Offsets(w))
InSteps(x, g) == IF g = 0 THEN 0 ELSE x \div g
Scaled(w, g)  == [k \in 1..Len(w) |-> InSteps(w[k].num - w[1].num, g)]

LastN_mut_oldest(s, n) == IF Len(s) <= n THEN s ELSE SubSeq(s, 1, n)

\* the last n elements of s (all of s when it has fewer)
LastN(s, n) == IF Len(s) <= n THEN s ELSE SubSeq(s, Len(s) - n + 1, Len(s))

\* the n most recent elements of s, oldest first
MostRecent(s, n) ==
    LET m == IF Len(s) < n THEN Len(s) ELSE n
    IN  [k \in 1..m |-> s[Len(s) - m + k]]

IsPrefix(a, b) == Len(a) <= Len(b) /\ SubSeq(b, 1, Len(a)) = a

----------------------------------------------------------------------------
(***************************************************************************)
(* validate_data, lines 18-33: the isinstance test.  The result is the     *)
(* exception raised, "none" when the function returns True.                *)
(***************************************************************************)
validate_data_mut_finite(v) ==
    IF v.kind \in {"int", "float"} THEN "none" ELSE "DataStreamException"

validate_data(v) ==
    IF v.kind \in {"int", "float", "nan", "inf", "ninf"}
    THEN "none"
    ELSE "DataStreamException"

(***************************************************************************)
(* deque(maxlen=n).append, lines 87 and 104 (and 126-127, 162-163).        *)
(***************************************************************************)
deque_append_mut_drop_newest(d, x, maxlen) ==
    IF Len(d) < maxlen THEN Append(d, x) ELSE d

deque_append(d, x, maxlen) ==
    IF maxlen = 0 THEN <<>>
    ELSE IF Len(d) < maxlen THEN Append(d, x)
    ELSE Append(Tail(d), x)

(***************************************************************************)
(* Lines 110-119: mean, population standard deviation, epsilon             *)
(* substitution, z-score and the comparison with the threshold, for a      *)
(* window w that already holds v, under rounding rnd.  With n = len(w),    *)
(* S the sum and Q the sum of squares of the scaled values:                *)
(*   value - mean = (n*v - S)/n   and   std_dev = sqrt(n*Q - S*S)/n,       *)
(* both in units of Step.  A nan or infinity anywhere in the window makes  *)
(* std_dev nan, z_score nan and the comparison False.  The threshold is    *)
(* not negative in any specification.  In z_exceeds each quantity is bound *)
(* once, by \E x \in {e}, to the value of its expression.                  *)
(***************************************************************************)
\* a / b is a dyadic rational: a float64 holds it exactly (the magnitudes of
\* the model are far inside the 53-bit significand)
IsPow2(k) == \E e \in 0..30 : k = 2 ^ e
DyadicRatio(a, b) == IsPow2(b \div Gcd(Abs(a), b))

\* A tie |z| = threshold in which every intermediate result of lines 111-117
\* is exactly representable: the values, their mean and std_dev (which in a
\* tie is |value - mean| / threshold).  The computed z_score is then exactly
\* the threshold and the comparison of line 119 is False on every build.
ExactTie(w, v, thr) ==
    LET n   == Len(w)
        sum == Sum([k \in 1..n |-> w[k].num])
    IN  /\ \A k \in 1..n : ExactlySummable(w[k])
        /\ DyadicRatio(sum, 10 * n)
        /\ DyadicRatio((n * v.num - sum) * thr.den, 10 * n * thr.num)

\* the computed mean of a window of equal values differs from the value
Residue(w, rnd) ==
    /\ rnd = "away"
    /\ Len(w) >= 3
    /\ ~ExactlySummable(w[1])

z_exceeds_mut_variance(w, v, thr, rnd) ==
    \* std_dev = np.var(self.window)
    IF \E k \in 1..Len(w) : ~IsFinite(w[k]) THEN FALSE
    ELSE LET n   == Len(w)
             g   == Step(w)
             y   == Scaled(w, g)
             S   == Sum(y)
             D   == n * SumSq(y) - S * S
             dev == n * InSteps(v.num - w[1].num, g) - S
         IN  IF D = 0
             THEN FALSE
             ELSE Abs(dev) * n * 10 * thr.den > thr.num * D * g

z_exceeds(w, v, thr, rnd) ==
    IF \E k \in 1..Len(w) : ~IsFinite(w[k]) THEN FALSE
    ELSE \E n \in {Len(w)} : \E g \in {Step(w)} : \E y \in {Scaled(w, g)} :
         \E S \in {Sum(y)} :
         \E D \in {n * SumSq(y) - S * S} :            \* n^2 * variance
         \* n * (value - mean)
         \E dev \in {n * InSteps(v.num - w[1].num, g) - S} :
             LET lhs == dev * dev * thr.den * thr.den
                 rhs == thr.num * thr.num * D
             IN  IF D = 0
                 THEN IF Residue(w, rnd)
                      \* std_dev = |value - mean| # 0, so |z_score| is exactly 1
                      THEN thr.den > thr.num
                      \* std_dev == 0 becomes 1e-6 and z_score = 0 / 1e-6
                      ELSE Abs(dev) * EpsInverse * thr.den > thr.num * n
                 \* |dev| > threshold * sqrt(D), both sides non-negative
                 ELSE IF lhs = rhs THEN rnd = "away" /\ ~ExactTie(w, v, thr)
                      ELSE lhs > rhs

(***************************************************************************)
(* RollingZScoreAnomalyDetector.update_and_detect, lines 100-122, as three *)
(* functions of the window before the call and the value: the exception    *)
(* leaving the call, the window after it, and the value returned.          *)
(***************************************************************************)
\* the except clause of line 120
Handles(exc) == exc = "DataStreamException"

ud_escapes(v) ==
    LET exc == validate_data(v)
    IN  IF exc = "none" \/ Handles(exc) THEN "none" ELSE exc

ud_window_mut_append_first(w, v, ws) == deque_append(w, v, ws)

ud_window(w, v, ws) ==
    IF validate_data(v) = "none" THEN deque_append(w, v, ws) ELSE w

\* line 107
ud_too_short(w) == Len(w) < 2

ud_result_mut_short_true(w, v, ws, thr, rnd) ==
    \* line 108 returning True
    IF validate_data(v) # "none" THEN FALSE
    ELSE LET w2 == deque_append(w, v, ws)
         IN  IF ud_too_short(w2) THEN TRUE
             ELSE z_exceeds(w2, v, thr, rnd)

ud_result_mut_warmup(w, v, ws, thr, rnd) ==
    \* a result that also depends on how many calls went before
    IF validate_data(v) # "none" THEN FALSE
    ELSE LET w2 == deque_append(w, v, ws)
         IN  IF ud_too_short(w2) THEN FALSE
             ELSE z_exceeds(w2, v, thr, rnd) /\ Len(detect_log) < 3

ud_result(w, v, ws, thr, rnd) ==
    IF validate_data(v) # "none" THEN FALSE
    ELSE \E w2 \in {deque_append(w, v, ws)} :
             IF ud_too_short(w2) THEN FALSE
             ELSE z_exceeds(w2, v, thr, rnd)

\* the call, with its history
update_and_detect(v) ==
    /\ window' = ud_window(window, v, window_size)
    /\ ret' = ud_result(window, v, window_size, threshold, rounding)
    /\ escaped' = ud_escapes(v)
    /\ window_before' = window
    /\ detect_log' = Append(detect_log, v)
    /\ flag_log' = Append(flag_log, ret')
    /\ accepted' = IF validate_data(v) = "none" THEN Append(accepted, v) ELSE accepted
    /\ UNCHANGED <<window_size, threshold, rounding>>

----------------------------------------------------------------------------
(***************************************************************************)
(* queue.Queue, line 125: unbounded (maxsize 0), so put never waits;       *)
(* empty() and get() as update_graph uses them.  get() waits while the     *)
(* queue is empty.                                                         *)
(***************************************************************************)
queue_put(q, x) == Append(q, x)

queue_empty_mut_never(q) == FALSE

queue_empty_mut_always(q) == TRUE

queue_empty(q) == q = <<>>

queue_get_mut_lifo(q) == [item |-> q[Len(q)], rest |-> SubSeq(q, 1, Len(q) - 1)]

queue_get_mut_requeue(q) ==
    [item |-> Head(q), rest |-> Append(Tail(q), Head(q))]

queue_get(q) == [item |-> Head(q), rest |-> Tail(q)]

(***************************************************************************)
(* data_stream_simulation, lines 47-68.                                    *)
(***************************************************************************)
loop_condition_mut_stop == ~shutdown

\* line 48: while True
loop_condition == TRUE

\* Values lines 51-57 can produce: 50 + seasonality + noise (+ impulse) is a
\* finite float whatever the random draws are.
GenValues == {PyFloat(503), PyFloat(871)}

\* The value SpecLong's generator produces at step t (one fixed draw).
LongValue(n) == PyFloat(503)

\* lines 48-57: the loop test and the computation of `value`
GenCompute(S, cap, backlog) ==
    /\ gpc = "compute"
    /\ IF loop_condition
       THEN /\ t < cap
            /\ Len(data_queue) < backlog
            /\ \E v \in S : value' = v
            /\ gpc' = "validate"
       ELSE /\ gpc' = "returned"
            /\ UNCHANGED value
    /\ UNCHANGED <<t, data_queue, consVars, detVars, shutdown, put_log,
                   detect_log, flag_log,
                   idx_log, accepted, window_before, taken,
                   queued_at_start, puts_at_shutdown>>

GenValidate_mut_count ==
    \* t += 1 also when validate_data raises
    /\ gpc = "validate"
    /\ gpc' = IF validate_data(value) = "none" THEN "put" ELSE "incr"
    /\ UNCHANGED <<t, value, data_queue, consVars, detVars, shutdown, put_log,
                   detect_log, flag_log,
                   idx_log, accepted, window_before, taken,
                   queued_at_start, puts_at_shutdown>>

\* line 59, and lines 66-68 when it raises
GenValidate ==
    /\ gpc = "validate"
    /\ gpc' = IF validate_data(value) = "none" THEN "put" ELSE "compute"
    /\ UNCHANGED <<t, value, data_queue, consVars, detVars, shutdown, put_log,
                   detect_log, flag_log,
                   idx_log, accepted, window_before, taken,
                   queued_at_start, puts_at_shutdown>>

\* line 61
GenPut ==
    /\ gpc = "put"
    /\ data_queue' = queue_put(data_queue, value)
    /\ put_log' = Append(put_log, value)
    /\ gpc' = "incr"
    /\ UNCHANGED <<t, value, consVars, detVars, shutdown,
                   detect_log, flag_log,
                   idx_log, accepted, window_before, taken,
                   queued_at_start, puts_at_shutdown>>

\* lines 63-65: t += 1, then the pacing sleep
GenIncr ==
    /\ gpc = "incr"
    /\ t' = t + 1
    /\ gpc' = "compute"
    /\ UNCHANGED <<value, data_queue, consVars, detVars, shutdown, put_log,
                   detect_log, flag_log,
                   idx_log, accepted, window_before, taken,
                   queued_at_start, puts_at_shutdown>>

(***************************************************************************)
(* update_graph, lines 143-186.                                            *)
(***************************************************************************)
\* line 159
next_idx(dx) == Len(dx) + 1

Activate_mut_range4 ==
    \* for _ in range(1, 5)
    /\ cpc = "idle"
    /\ cpc' = "check"
    /\ loop_i' = 1
    /\ taken' = 0
    /\ queued_at_start' = Len(data_queue)
    /\ UNCHANGED <<genVars, data_queue, cvalue, figure, data_x, data_y,
                   anomaly_x, anomaly_y, detVars, shutdown, put_log,
                   detect_log, flag_log, idx_log, accepted, window_before,
                   puts_at_shutdown>>

\* the dcc.Interval timer fires and the callback starts, line 155
Activate ==
    /\ cpc = "idle"
    /\ cpc' = "check"
    /\ loop_i' = 0
    /\ taken' = 0
    /\ queued_at_start' = Len(data_queue)
    /\ UNCHANGED <<genVars, data_queue, cvalue, figure, data_x, data_y,
                   anomaly_x, anomaly_y, detVars, shutdown, put_log,
                   detect_log, flag_log, idx_log, accepted, window_before,
                   puts_at_shutdown>>

\* line 156: if not data_queue.empty()
CheckEmpty ==
    /\ cpc = "check"
    /\ IF ~queue_empty(data_queue)
       THEN cpc' = "get" /\ UNCHANGED loop_i
       ELSE /\ loop_i' = loop_i + 1
            /\ cpc' = IF loop_i + 1 = BatchSize THEN "finish" ELSE "check"
    /\ UNCHANGED <<genVars, data_queue, cvalue, figure, data_x, data_y,
                   anomaly_x, anomaly_y, detVars, shutdown, put_log,
                   detect_log, flag_log,
                   idx_log, accepted, window_before, taken,
                   queued_at_start, puts_at_shutdown>>

\* line 158: value = data_queue.get()
Get ==
    /\ cpc = "get"
    /\ data_queue # <<>>
    /\ cvalue' = queue_get(data_queue).item
    /\ data_queue' = queue_get(data_queue).rest
    /\ taken' = taken + 1
    /\ cpc' = "process"
    /\ UNCHANGED <<genVars, loop_i, figure, data_x, data_y,
                   anomaly_x, anomaly_y, detVars, shutdown, put_log,
                   detect_log, flag_log, idx_log, accepted, window_before,
                   queued_at_start, puts_at_shutdown>>

\* lines 159-168
Process ==
    /\ cpc = "process"
    /\ LET idx == next_idx(data_x)
       IN  /\ data_x' = deque_append(data_x, idx, DisplayCap)
           /\ data_y' = deque_append(data_y, cvalue, DisplayCap)
           /\ update_and_detect(cvalue)
           /\ IF ret'
              THEN /\ anomaly_x' = Append(anomaly_x, idx)
                   /\ anomaly_y' = Append(anomaly_y, cvalue)
              ELSE UNCHANGED <<anomaly_x, anomaly_y>>
           /\ idx_log' = Append(idx_log, idx)
    /\ loop_i' = loop_i + 1
    /\ cpc' = IF loop_i + 1 = BatchSize THEN "finish" ELSE "check"
    /\ UNCHANGED <<genVars, data_queue, cvalue, figure, shutdown, put_log,
                   taken, queued_at_start, puts_at_shutdown>>

\* lines 170-186: trim the anomaly lists, build the figure, return
Finish ==
    /\ cpc = "finish"
    /\ anomaly_x' = IF Len(anomaly_x) > AnomalyCap
                    THEN LastN(anomaly_x, AnomalyCap) ELSE anomaly_x
    /\ anomaly_y' = IF Len(anomaly_x) > AnomalyCap
                    THEN LastN(anomaly_y, AnomalyCap) ELSE anomaly_y
    \* line 183: min() and max() of an empty deque raise ValueError
    /\ figure' = IF data_y = <<>> THEN "ValueError" ELSE "figure"
    /\ cpc' = "idle"
    /\ UNCHANGED <<genVars, data_queue, loop_i, cvalue, data_x, data_y,
                   detVars, shutdown, put_log, detect_log, flag_log,
                   idx_log, accepted,
                   window_before, taken, queued_at_start, puts_at_shutdown>>

(***************************************************************************)
(* __main__, lines 201-213: both threads are daemons and the main thread   *)
(* sleeps forever; the process is stopped from outside by interrupting     *)
(* that loop.  Nothing in data_stream_simulation reads the request.        *)
(***************************************************************************)
RequestShutdown ==
    /\ ~shutdown
    /\ shutdown' = TRUE
    /\ puts_at_shutdown' = Len(put_log)
    /\ UNCHANGED <<genVars, data_queue, consVars, detVars, put_log,
                   detect_log, flag_log,
                   idx_log, accepted, window_before, taken,
                   queued_at_start>>

----------------------------------------------------------------------------
(***************************************************************************)
(* Specifications.                                                         *)
(***************************************************************************)
\* the module-level state of lines 125-130 with a detector (ws, thr)
InitWith(ws, thr, rnd) ==
    /\ gpc = "compute" /\ t = 0 /\ value = None
    /\ data_queue = <<>>
    /\ cpc = "idle" /\ loop_i = 0 /\ cvalue = None /\ figure = "none"
    /\ data_x = <<>> /\ data_y = <<>> /\ anomaly_x = <<>> /\ anomaly_y = <<>>
    /\ window_size = ws /\ threshold = thr /\ window = <<>>
    /\ ret = FALSE /\ escaped = "none" /\ rounding = rnd
    /\ shutdown = FALSE
    /\ put_log = <<>> /\ detect_log = <<>> /\ flag_log = <<>> /\ idx_log = <<>>
    /\ accepted = <<>> /\ window_before = <<>>
    /\ taken = 0 /\ queued_at_start = 0 /\ puts_at_shutdown = -1

\* line 130
Init ==
    \E rnd \in Roundings :
        InitWith(DeployedWindowSize, [num |-> DeployedThreshold, den |-> 1], rnd)

Consumer == Activate \/ CheckEmpty \/ Get \/ Process \/ Finish

\* The deployed program: generator thread, callback, shutdown request.
Next ==
    \/ GenCompute(GenValues, MaxSamples, MaxSamples + 1)
    \/ GenValidate \/ GenPut \/ GenIncr
    \/ Consumer
    \/ RequestShutdown

Spec == Init /\ [][Next]_vars

\* The deployed program with a timer that keeps firing: dcc.Interval (line
\* 137) requests update_graph every 500 ms for as long as the page is open,
\* and a request that has started runs to its end.  Nothing is assumed of
\* the generator.
\* The generator follows one sample path.
LiveValue(n) == IF n % 2 = 0 THEN PyFloat(503) ELSE PyFloat(871)

NextLive ==
    \/ GenCompute({LiveValue(t)}, MaxLiveSamples, MaxLiveSamples + 1)
    \/ GenValidate \/ GenPut \/ GenIncr
    \/ Consumer

SpecLive == Init /\ [][NextLive]_vars /\ WF_vars(Consumer)

\* The same program with no assumption on the timer.
SpecBurst == Init /\ [][NextLive]_vars

\* The generator's loop with lines 51-57 yielding an object of any type.
\* In app.py `value` is always a float, so validate_data never raises at
\* line 59; this specification exercises lines 66-68 all the same.
AnyValues == GenValues \cup {Str, None}

NextAny ==
    \/ GenCompute(AnyValues, MaxAnySamples, MaxAnySamples + 1)
    \/ GenValidate \/ GenPut \/ GenIncr
    \/ Consumer

SpecAny == Init /\ [][NextAny]_vars

\* The deployed program over a long run of one fixed sample path.
NextLong ==
    \/ GenCompute({LongValue(t)}, MaxLongSamples, MaxBacklog)
    \/ GenValidate \/ GenPut \/ GenIncr
    \/ Consumer

SpecLong == Init /\ [][NextLong]_vars

\* The deployed program late in a run.  The generator has followed the
\* sample path SpikePath (a spike of 87.1 every 15th sample on a level of
\* 50.3) for WarmSamples samples, and update_graph has consumed each of them
\* in an activation of its own.  On that path the detector flags exactly the
\* spikes: a window of 15 to 30 samples holds one or two of them, so a
\* spike's squared z-score is at least 14 and a level sample's at most 1/14.
SpikePath(k) == IF k % 15 = 0 THEN PyFloat(871) ELSE PyFloat(503)

WarmPath(n) == [k \in 1..n |-> SpikePath(k)]
WarmFlags(n) == [k \in 1..n |-> k % 15 = 0]
WarmIdx(n) == [k \in 1..n |-> IF k <= DisplayCap THEN k ELSE DisplayCap + 1]

\* the entries of log at the positions flags marks
Marked(log, flags) ==
    LET ks == SelectSeq([k \in 1..Len(log) |-> k], LAMBDA k : flags[k])
    IN  [j \in 1..Len(ks) |-> log[ks[j]]]

InitWarm ==
    \E rnd \in Roundings :
    LET n == WarmSamples
        path == WarmPath(n)
    IN  /\ gpc = "compute" /\ t = n /\ value = path[n]
        /\ data_queue = <<>>
        /\ cpc = "idle" /\ loop_i = BatchSize /\ cvalue = path[n]
        /\ figure = "figure"
        /\ data_x = MostRecent(WarmIdx(n), DisplayCap)
        /\ data_y = MostRecent(path, DisplayCap)
        /\ anomaly_x = MostRecent(Marked(WarmIdx(n), WarmFlags(n)), AnomalyCap)
        /\ anomaly_y = MostRecent(Marked(path, WarmFlags(n)), AnomalyCap)
        /\ window_size = DeployedWindowSize
        /\ threshold = [num |-> DeployedThreshold, den |-> 1]
        /\ window = MostRecent(path, DeployedWindowSize)
        /\ ret = WarmFlags(n)[n] /\ escaped = "none" /\ rounding = rnd
        /\ shutdown = FALSE
        /\ put_log = path /\ detect_log = path /\ flag_log = WarmFlags(n)
        /\ idx_log = WarmIdx(n) /\ accepted = path
        /\ window_before = MostRecent(WarmPath(n - 1), DeployedWindowSize)
        /\ taken = 1 /\ queued_at_start = 1 /\ puts_at_shutdown = -1

NextWarm ==
    \/ GenCompute({SpikePath(t + 1)}, WarmSamples + MaxWarmExtra, MaxBacklog)
    \/ GenValidate \/ GenPut \/ GenIncr
    \/ Consumer

SpecWarm == InitWarm /\ [][NextWarm]_vars

\* The same run from the start of the program.
NextCold ==
    \/ GenCompute({SpikePath(t + 1)}, WarmSamples, MaxBacklog)
    \/ GenValidate \/ GenPut \/ GenIncr
    \/ Consumer

SpecCold == Init /\ [][NextCold]_vars

\* The detector alone, driven by a caller with arbitrary arguments.
DetInputs == {PyFloat(100), PyFloat(1), PyInt(3), NaN, PosInf, NegInf, Str}

DetThresholds == {[num |-> 1, den |-> 2], [num |-> 1, den |-> 1],
                  [num |-> 7, den |-> 2]}

Feed(S, cap) ==
    /\ Len(detect_log) < cap
    /\ \E v \in S : update_and_detect(v)
    /\ UNCHANGED <<genVars, data_queue, consVars, shutdown, put_log, idx_log,
                   taken, queued_at_start, puts_at_shutdown>>

InitDet ==
    \E ws \in 1..MaxWindow : \E thr \in DetThresholds : \E rnd \in Roundings :
        InitWith(ws, thr, rnd)

NextDet == Feed(DetInputs, MaxCalls)

SpecDet == InitDet /\ [][NextDet]_vars

\* The deployed detector fed a baseline with at most MaxOutliers outliers.
Baseline == PyFloat(100)
Outlier  == PyFloat(10000)

NumOutliers(s) == Cardinality({k \in 1..Len(s) : s[k] # Baseline})

Feed30 ==
    /\ Feed({Baseline, Outlier}, MaxFeed30)
    /\ NumOutliers(detect_log') <= MaxOutliers

SpecDet30 == Init /\ [][Feed30]_vars

\* The deployed detector over its first calls, fed 10.0 and 11.0 in any order.
Nudge == PyFloat(110)

FeedFirst == Feed({Baseline, Nudge}, MaxFirst)

SpecFirst == Init /\ [][FeedFirst]_vars

----------------------------------------------------------------------------
(***************************************************************************)
(* Properties.                                                             *)
(***************************************************************************)
Last(s) == s[Len(s)]

\* the last update_and_detect call was given a value validate_data accepts
LastAccepted == detect_log # <<>> /\ validate_data(Last(detect_log)) = "none"

\* the last update_and_detect call was given a value validate_data rejects
LastRejected == detect_log # <<>> /\ validate_data(Last(detect_log)) # "none"

\* the sample update_graph has taken and not yet passed to the detector
InFlight == IF cpc = "process" THEN <<cvalue>> ELSE <<>>

\* C1: the values passed to update_and_detect are a prefix of the values put
\* on data_queue, and the values put are exactly the values detected, then
\* the one in the callback's hands, then the queue's contents: taken in the
\* order put, none dropped, none processed twice.
C1_FifoPrefix ==
    /\ IsPrefix(detect_log, put_log)
    /\ put_log = detect_log \o InFlight \o data_queue

C1_Witness ==
    /\ Len(detect_log) >= 2
    /\ detect_log[1] # detect_log[2]
    /\ data_queue # <<>>
    /\ cpc = "process"

\* C2: the k-th consumed sample is given index k (1 for the first, one more
\* for each later one), also beyond 200 consumed samples.
C2_IdxConsecutive == \A k \in 1..Len(idx_log) : idx_log[k] = k

\* C3: a call of update_and_detect with a value that fails validate_data
\* returns false, leaves the window as it was, and no exception escapes.
C3_InvalidSwallowed ==
    LastRejected => /\ ret = FALSE
                    /\ window = window_before
                    /\ escaped = "none"

C3_Witness ==
    /\ LastRejected
    /\ Len(window_before) >= 2
    /\ Len(accepted) >= 3

\* validate_data as the claim C4 words it: finite real numbers only
IsFiniteReal(v) == v.kind \in {"int", "float"}

\* what isinstance(value, (int, float)) holds of: nan and the infinities are
\* float objects
IsNumericType(v) == v.kind \in {"int", "float", "nan", "inf", "ninf"}

\* C4 as claimed: a value is accepted iff it is a finite real number, so no
\* NaN or infinity is ever on the queue or in the rolling window.
C4_OnlyFiniteAccepted ==
    /\ accepted = SelectSeq(detect_log, IsFiniteReal)
    /\ \A k \in 1..Len(window) : IsFiniteReal(window[k])
    /\ \A k \in 1..Len(data_queue) : IsFiniteReal(data_queue[k])

\* C4 as amended: a value is accepted iff it is of numeric type (int or
\* float, NaN and the infinities included); only non-numeric values are kept
\* out of the rolling window, and a NaN or infinity passed to
\* update_and_detect becomes the newest entry of the window.
C4_NumericTypeAccepted ==
    /\ accepted = SelectSeq(detect_log, IsNumericType)
    /\ \A k \in 1..Len(window) : IsNumericType(window[k])
    /\ (detect_log # <<>> /\ Last(detect_log) \in {NaN, PosInf, NegInf})
          => (window # <<>> /\ Last(window) = Last(detect_log))

C4_Witness ==
    /\ \E k \in 1..Len(window) : window[k] = NaN
    /\ \E k \in 1..Len(window) : window[k] = PosInf
    /\ \E k \in 1..Len(detect_log) : detect_log[k] = Str
    /\ Last(detect_log) = NaN

\* C5: the window holds exactly the most recent min(k, window_size) accepted
\* values, in arrival order, k being the number of accepted values.
C5_WindowMostRecent ==
    /\ window = LastN(accepted, window_size)
    /\ Len(window) = Min(Len(accepted), window_size)
    /\ Len(window) <= window_size

C5_Witness ==
    /\ window_size >= 2
    /\ Len(accepted) > window_size
    /\ Len(detect_log) > Len(accepted)
    /\ window[1] # window[2]

\* C6: the consumer reaches data_queue.get() only with a non-empty queue, the
\* generator's put is enabled whenever it is at it: neither waits on the
\* channel.
C6_NeverBlocked ==
    /\ cpc = "get" => (data_queue # <<>> /\ ENABLED Get)
    /\ gpc = "put" => ENABLED GenPut

C6_Witness ==
    /\ cpc = "get"
    /\ gpc = "put"
    /\ Len(data_queue) = 1
    /\ taken >= 1

\* C7 as claimed: once the stop signal is raised the generator leaves its
\* loop at the next test, so at most the sample of the iteration in progress
\* is still put.
C7_StopsAfterSignal ==
    shutdown => Len(put_log) <= puts_at_shutdown + 1

\* C7 as amended: the generator has no stop signal; its loop is never left,
\* and it starts new iterations whether or not a shutdown was requested.
C7_NeverLeavesLoop ==
    /\ gpc \in {"compute", "validate", "put", "incr"}
    /\ (gpc = "compute" /\ t < MaxSamples)
          => ENABLED GenCompute(GenValues, MaxSamples, MaxSamples + 1)

C7_Witness ==
    /\ shutdown
    /\ Len(put_log) >= puts_at_shutdown + 2
    /\ gpc = "validate"

\* numerically equal window entries
AllEqual(w) ==
    /\ \A k \in 1..Len(w) : IsFinite(w[k])
    /\ \A j, k \in 1..Len(w) : w[j].num = w[k].num

\* C8: an accepted value that leaves the window with fewer than 2 entries
\* gets false.
C8_ShortWindowFalse ==
    (LastAccepted /\ Len(window) < 2) => ret = FALSE

C8_Witness ==
    /\ LastAccepted
    /\ Len(window) = 1
    /\ IsFinite(Last(detect_log))
    /\ Len(detect_log) = 1
    /\ window_size >= 2

\* C9: an accepted value after which all window entries are equal gets
\* false; in particular the same constant fed window_size times and once more.
C9_ZeroVarianceFalse ==
    (LastAccepted /\ AllEqual(window)) => ret = FALSE

\* 29 copies of 10.0
Baseline29 == [k \in 1..29 |-> Baseline]

\* C10: on the fresh detector (30, 3), 29 copies of 10.0 and then 1000.0:
\* the 30th call returns true.
C10_OutlierFlagged ==
    detect_log = Append(Baseline29, Outlier) => ret = TRUE

C10_Witness ==
    /\ detect_log = Append(Baseline29, Outlier)
    /\ window = detect_log
    /\ window_size = 30 /\ threshold = [num |-> 3, den |-> 1]

\* C11: every sample put on data_queue is eventually passed to
\* update_and_detect, in its place in the order of the puts, when update_graph
\* keeps being activated; samples that pile up between activations are not
\* lost.
C11_EventuallyDetected ==
    \A k \in 1..MaxLiveSamples :
        (Len(put_log) >= k)
            ~> (Len(detect_log) >= k /\ detect_log[k] = put_log[k])

C11_Witness ==
    /\ Len(put_log) = MaxLiveSamples
    /\ detect_log = put_log
    /\ queued_at_start >= 2
    /\ data_queue = <<>>

\* an activation of update_graph has returned or raised
ActivationOver == cpc = "idle" /\ figure # "none"

\* C12: an activation takes at most 5 samples, and at least min(5, q) when q
\* samples were queued at its start; an iteration that finds the queue empty
\* takes nothing and goes on to the next iteration (or to the end) without
\* waiting at get().
C12_BatchBounds ==
    /\ [](taken <= BatchSize)
    /\ [](ActivationOver => taken >= Min(BatchSize, queued_at_start))
    /\ [][(cpc = "check" /\ data_queue = <<>>
             /\ (cpc' # cpc \/ loop_i' # loop_i))
            => (/\ taken' = taken
                /\ data_queue' = data_queue
                /\ loop_i' = loop_i + 1
                /\ cpc' \in {"check", "finish"})]_vars

C12_Witness ==
    /\ ActivationOver
    /\ queued_at_start > BatchSize
    /\ taken = BatchSize
    /\ data_queue # <<>>

\* A second detector with the same window_size and threshold, in the same
\* process, fed the values of log from the start: its window after the last
\* call and the flags of all its calls.
RECURSIVE Replay(_, _, _, _)
Replay(log, ws, thr, rnd) ==
    IF log = <<>> THEN [window |-> <<>>, flags |-> <<>>]
    ELSE LET prev == Replay(SubSeq(log, 1, Len(log) - 1), ws, thr, rnd)
             v    == log[Len(log)]
         IN  [window |-> ud_window(prev.window, v, ws),
              flags  |-> Append(prev.flags,
                                ud_result(prev.window, v, ws, thr, rnd))]

C14_BuffersCapped ==
    ActivationOver =>
        /\ Len(data_x) = Len(data_y)
        /\ Len(data_x) <= DisplayCap
        /\ data_x = MostRecent(idx_log, DisplayCap)
        /\ data_y = MostRecent(detect_log, DisplayCap)
        /\ Len(anomaly_x) = Len(anomaly_y)
        /\ Len(anomaly_x) <= AnomalyCap
        /\ anomaly_x = MostRecent(Marked(idx_log, flag_log), AnomalyCap)
        /\ anomaly_y = MostRecent(Marked(detect_log, flag_log), AnomalyCap)

C14_Witness ==
    /\ ActivationOver
    /\ Len(Marked(idx_log, flag_log)) > AnomalyCap
    /\ Len(anomaly_x) = AnomalyCap
    /\ Len(detect_log) > DisplayCap
    /\ Len(data_x) = DisplayCap
    /\ taken >= 2

\* |v - mean(W)| > threshold * s in exact arithmetic, s the population
\* standard deviation of W taken as 1e-6 when it is 0; W finite, in tenths.
ClaimedFlag(W, v, thr) ==
    LET n   == Len(W)
        sum == Sum([k \in 1..n |-> W[k].num])
        sq  == SumSq([k \in 1..n |-> W[k].num])
        D   == n * sq - sum * sum            \* (10 * n * s)^2
        dev == n * v.num - sum               \* 10 * n * (v - mean)
    IN  IF D = 0
        THEN Abs(dev) * thr.den * EpsInverse > thr.num * 10 * n
        ELSE dev * dev * thr.den * thr.den > thr.num * thr.num * D

\* C15: for an accepted value that leaves a window W of at least 2 (finite)
\* entries, update_and_detect returns true iff |v - mean(W)| > threshold * s,
\* W including v, s the population standard deviation of W, 1e-6 when it is
\* exactly 0.
C15_ZFormula ==
    (/\ LastAccepted
     /\ Len(window) >= 2
     /\ \A k \in 1..Len(window) : IsFinite(window[k]))
        => (ret <=> ClaimedFlag(window, Last(detect_log), threshold))

\* C19: a value scored in a window of n entries is flagged only if
\* n - 1 > threshold^2; with the deployed detector (30, 3) none of the first
\* 10 accepted values is flagged, whatever the values.
C19_FirstTenNeverFlagged ==
    /\ ret => (Len(window) - 1) * threshold.den * threshold.den
                  > threshold.num * threshold.num
    /\ \A k \in 1..Len(flag_log) : k <= 10 => ~flag_log[k]

IsSuffix(a, b) ==
    Len(a) <= Len(b) /\ a = SubSeq(b, Len(b) - Len(a) + 1, Len(b))

\* C17: a step of the generator leaves the detector's window and the four
\* display buffers as they are; a step of update_graph leaves t as it is and
\* only removes from the head of data_queue.
C17_OnlyQueueShared ==
    [][/\ (gpc' # gpc)
           => UNCHANGED <<window, data_x, data_y, anomaly_x, anomaly_y>>
       /\ (cpc' # cpc \/ loop_i' # loop_i)
           => (t' = t /\ IsSuffix(data_queue', data_queue))]_vars

C17_Witness ==
    /\ gpc = "incr"
    /\ cpc = "process"
    /\ Len(window) >= 2
    /\ Len(data_y) >= 2
    /\ Len(data_queue) >= 1
    /\ t >= 2

\* C18: an activation that takes nothing from the queue returns a figure,
\* also when no sample has been consumed yet.
C18_EmptyPollReturnsFigure ==
    (ActivationOver /\ taken = 0) => figure = "figure"

====
